---- MODULE Spec2Model ----
(***************************************************************************)
(* Model of hexaflexa.py: the net of a trihexaflexagon drawn on one page.  *)
(*                                                                         *)
(* Coordinates.  Every point the program hands to the drawing context has  *)
(* the form (PAPER_BORDER + a*triangle_height, PAPER_BORDER +              *)
(* b*triangle_half_side) with integers a and b, so a point is the pair     *)
(* <<a, b>>; triangle_height and triangle_half_side are the units of the   *)
(* two axes and triangle_side is two half sides.  Since                    *)
(* triangle_height^2 = 3 * triangle_half_side^2, the squared length of a   *)
(* vector <<a, b>> is (3*a*a + b*b) half sides squared.  Angles are in     *)
(* degrees, so 2*pi/12 is 30.                                              *)
(***************************************************************************)
EXTENDS Integers, Sequences, FiniteSets, TLC

VARIABLES
    pc,             \* position in main / draw_picture / draw_outline
    paper,          \* args.paper, upper-cased
    pics,           \* args.pics: the image file names, numbered 1..n
    count,          \* horizontal_triangle_count
    i,              \* main: repetition index
    pairs,          \* main: the zipped list the inner loop walks
    j,              \* main: number of pairs already consumed
    image,          \* the loaded image surface
    face,           \* draw_picture: face
    ori,            \* draw_picture: ori
    face_type,      \* draw_picture / draw_outline: face_type
    m,              \* draw_picture: triangle_in_image_index
    k,              \* draw_picture: k
    trans,          \* draw_picture: trans
    current_point,  \* draw_picture / draw_outline: current_point
    triangle_index, \* draw_outline: triangle_index
    context,        \* the cairo context
    paintLog,       \* paint/mask operations issued in this repetition
    strokeLog,      \* stroke operations issued in this repetition
    rots,           \* angles handed to context.rotate by the current caller
    pages           \* number of show_page calls

vars ==
    <<pc, paper, pics, count, i, pairs, j, image, face, ori, face_type, m, k,
      trans, current_point, triangle_index, context, paintLog, strokeLog,
      rots, pages>>

(***************************************************************************)
(* Bounds and input samples                                                *)
(***************************************************************************)
MaxPics ==
    10

ImageSizes ==
    {<<1, 1>>, <<200, 100>>, <<100, 200>>}

PaperArgs ==
    {"A4", "LETTER", "LEGAL", "TABLOID", "A5"}

(***************************************************************************)
(* Constants of the program                                                *)
(***************************************************************************)
COMMON ==
    "dur"

HIDDEN ==
    "moll"

PAPER_SIZES ==
    [A4      |-> [width |-> 595, height |-> 842],
     LETTER  |-> [width |-> 612, height |-> 792],
     LEGAL   |-> [width |-> 612, height |-> 1008],
     TABLOID |-> [width |-> 792, height |-> 1224]]

\* triangle_side / 2, the unit of the second coordinate
triangle_half_side ==
    1

triangle_side ==
    2 * triangle_half_side

\* height_of_triangle(triangle_side), the unit of the first coordinate
triangle_height ==
    1

\* 2*pi/12 in degrees
TwelfthTurn ==
    360 \div 12

\* int(width / (triangle_height*2)) with triangle_side = (height - 2*PAPER_BORDER)/10,
\* PAPER_BORDER = .75*72/2.54 = 2700/127 and triangle_height*2 = sqrt(3)*triangle_side:
\* the largest c with c * sqrt(3) * (127*height - 5400) <= 1270 * width.
\* sqrt(3) is taken as 1732/1000; 1733/1000 gives the same count for every paper size.
HorizontalTriangleCountBy(size, sqrt3) ==
    CHOOSE c \in 0..6 :
        /\ c * sqrt3 * (127 * size.height - 5400) <= 1270000 * size.width
        /\ (c + 1) * sqrt3 * (127 * size.height - 5400) > 1270000 * size.width

HorizontalTriangleCount(size) ==
    HorizontalTriangleCountBy(size, 1732)

(***************************************************************************)
(* The drawing context (cairo.Context) as the program uses it              *)
(***************************************************************************)
NoPoint ==
    <<>>

\* where a point lands that is not given under the page's base transform
OffGrid ==
    <<-1000, -1000>>

BaseCTM ==
    <<>>

NoClip ==
    <<>>

NoImage ==
    [id |-> 0, width |-> 0, height |-> 0]

NewContext ==
    [point |-> NoPoint, path |-> <<>>, ctm |-> BaseCTM, clip |-> NoClip,
     source |-> [kind |-> "default", id |-> 0], line_width |-> 2,
     saved |-> <<>>]

ToDevice(c, p) ==
    IF c.ctm = BaseCTM THEN p ELSE OffGrid

MoveTo(c, x, y) ==
    [c EXCEPT !.point = ToDevice(c, <<x, y>>),
              !.path = Append(c.path, [pts |-> <<ToDevice(c, <<x, y>>)>>, closed |-> FALSE])]

RelMoveTo(c, dx, dy) ==
    IF c.point = NoPoint THEN c
    ELSE MoveTo(c, c.point[1] + dx, c.point[2] + dy)

RelLineTo(c, dx, dy) ==
    IF c.point = NoPoint THEN c
    ELSE LET p == ToDevice(c, <<c.point[1] + dx, c.point[2] + dy>>)
             n == Len(c.path)
         IN  [c EXCEPT !.point = p,
                       !.path[n].pts = Append(c.path[n].pts, p)]

ClosePath(c) ==
    IF c.point = NoPoint THEN c
    ELSE LET n == Len(c.path)
         IN  [c EXCEPT !.point = c.path[n].pts[1],
                       !.path[n].closed = TRUE]

GetCurrentPoint(c) ==
    IF c.point = NoPoint THEN OffGrid ELSE c.point

Save(c) ==
    [c EXCEPT !.saved = Append(c.saved,
        [ctm |-> c.ctm, clip |-> c.clip, source |-> c.source, line_width |-> c.line_width])]

Restore(c) ==
    IF c.saved = <<>> THEN c
    ELSE LET s == c.saved[Len(c.saved)]
         IN  [c EXCEPT !.ctm = s.ctm, !.clip = s.clip, !.source = s.source,
                       !.line_width = s.line_width,
                       !.saved = SubSeq(c.saved, 1, Len(c.saved) - 1)]

Translate(c, tx, ty) ==
    [c EXCEPT !.ctm = Append(c.ctm, [kind |-> "translate", a |-> tx, b |-> ty])]

\* scale by num/den on both axes
Scale(c, num, den) ==
    [c EXCEPT !.ctm = Append(c.ctm, [kind |-> "scale", a |-> num, b |-> den])]

Rotate(c, degrees) ==
    [c EXCEPT !.ctm = Append(c.ctm, [kind |-> "rotate", a |-> degrees, b |-> 0])]

\* translate by (tx2/2, ty2/2) image pixels
TranslateHalves(c, tx2, ty2) ==
    [c EXCEPT !.ctm = Append(c.ctm, [kind |-> "translate_px_halves", a |-> tx2, b |-> ty2])]

Clip(c) ==
    [c EXCEPT !.clip = Append(c.clip, c.path), !.path = <<>>, !.point = NoPoint]

Stroke(c) ==
    [c EXCEPT !.path = <<>>, !.point = NoPoint]

SetSourceSurface(c, img) ==
    [c EXCEPT !.source = [kind |-> "surface", id |-> img.id]]

SetSourceRgbBlack(c) ==
    [c EXCEPT !.source = [kind |-> "rgb000", id |-> 0]]

SetLineWidth(c, w) ==
    [c EXCEPT !.line_width = w]

\* the cursor left where the previous triangle put it
ResetCursorOmitted(c, p) ==
    c

\* context.move_to(*current_point)
ResetCursor(c, p) ==
    MoveTo(c, p[1], p[2])

\* the closed sub-path of a path: the triangle
ClosedPts(path) ==
    LET S == {n \in 1..Len(path) : path[n].closed}
    IN  IF S = {} THEN <<>> ELSE path[CHOOSE n \in S : TRUE].pts

(***************************************************************************)
(* draw_triangle                                                           *)
(***************************************************************************)
\* draw_triangle stepping one side per index instead of one side per two
DrawTriangleNoHalving(c, side, half_side, height, index, ft) ==
    LET tr == (index % 2 = 0)
        c1 == RelMoveTo(c, height, side * (index + 1))
        h  == IF ft = HIDDEN THEN -height ELSE height
        c4 == IF tr
              THEN RelLineTo(RelLineTo(RelLineTo(c1, -h, -half_side), h, -half_side), 0, side)
              ELSE RelLineTo(RelLineTo(RelLineTo(c1, -h, half_side), 0, -side), h, half_side)
    IN  ClosePath(c4)

DrawTriangle(c, side, half_side, height, index, ft) ==
    LET tr == (index % 2 = 0)
        c1 == RelMoveTo(c, height, side * ((index \div 2) + 1))
        h  == IF ft = HIDDEN THEN -height ELSE height
        c4 == IF tr
              THEN RelLineTo(RelLineTo(RelLineTo(c1, -h, -half_side), h, -half_side), 0, side)
              ELSE RelLineTo(RelLineTo(RelLineTo(c1, -h, half_side), 0, -side), h, half_side)
    IN  ClosePath(c4)

(***************************************************************************)
(* transform_to_texture_space                                              *)
(***************************************************************************)
\* the translation table with one sign flipped
translationSlip(side, half_side, height) ==
    [dur  |-> [stone   |-> << <<0, 0>>, <<-height, half_side>> >>,
               scissor |-> << <<0, side>>, <<-height, -half_side>> >>,
               paper   |-> << <<-height, -half_side>>, <<0, 0>> >>],
     moll |-> [stone   |-> << <<height, -half_side>>, <<height, -half_side>> >>,
               scissor |-> << <<height, -half_side>>, <<height, -half_side>> >>]]

translation(side, half_side, height) ==
    [dur  |-> [stone   |-> << <<0, 0>>, <<-height, half_side>> >>,
               scissor |-> << <<0, -side>>, <<-height, -half_side>> >>,
               paper   |-> << <<-height, -half_side>>, <<0, 0>> >>],
     moll |-> [stone   |-> << <<height, -half_side>>, <<height, -half_side>> >>,
               scissor |-> << <<height, -half_side>>, <<height, -half_side>> >>]]

\* the rotation table with one entry off by one
rotationSlip ==
    [dur  |-> [stone |-> <<0, 2>>, scissor |-> <<-4, 5>>, paper |-> <<-4, 2>>],
     moll |-> [stone |-> <<0, -2>>, scissor |-> <<-4, -6>>]]

rotation ==
    [dur  |-> [stone |-> <<0, 2>>, scissor |-> <<-4, 6>>, paper |-> <<-4, 2>>],
     moll |-> [stone |-> <<0, -2>>, scissor |-> <<-4, -6>>]]

Min(a, b) ==
    IF a < b THEN a ELSE b

\* rot advancing one twelfth of a turn per copy
RotSingleStep(ft, o, tr, mm) ==
    TwelfthTurn * (rotation[ft][o][tr + 1] + mm)

\* rot of line 135, in degrees
Rot(ft, o, tr, mm) ==
    TwelfthTurn * (rotation[ft][o][tr + 1] + 2 * mm)

TransformToTextureSpace(c, side, half_side, height, ft, o, tr, image_width, image_height, mm) ==
    LET d        == translation(side, half_side, height)[ft][o][tr + 1]
        rot      == Rot(ft, o, tr, mm)
        ref_size == Min(image_width, image_height)
        p        == GetCurrentPoint(c)
        c1       == Translate(c, p[1] + d[1], p[2] + d[2])
        c2       == Scale(c1, 2 * side, ref_size)
        c3       == Rotate(c2, rot)
    IN  TranslateHalves(c3, -image_width, -image_height)

(***************************************************************************)
(* draw_picture                                                            *)
(***************************************************************************)
\* range(0, 6): the copies of one face
CopiesPerFace ==
    6

\* alpha of the mask pattern, in percent
alpha ==
    40

FaceTypeOf(f) ==
    IF f < 3 THEN COMMON ELSE HIDDEN

\* k with a stride of two triangles per copy on the common faces
KStrideTwo(ft, f, mm) ==
    IF ft = COMMON
    THEN 1 + 2 * mm + f
    ELSE (mm % 2) + 2 * (f - 3 + 3 * (mm \div 2))

\* the strip triangle index of copy mm of face f
K(ft, f, mm) ==
    IF ft = COMMON
    THEN 1 + 3 * mm + f
    ELSE (mm % 2) + 2 * (f - 3 + 3 * (mm \div 2))

\* the angle of the last context.rotate in force
AppliedRotation(c) ==
    LET S == {n \in 1..Len(c.ctm) : c.ctm[n].kind = "rotate"}
    IN  c.ctm[CHOOSE n \in S : \A n2 \in S : n2 <= n].a

\* the mask chosen by the face type alone
PaintOpAnyCommon(ft, o) ==
    IF ft = COMMON THEN "mask" ELSE "paint"

\* the operation that paints one copy
PaintOp(ft, o) ==
    IF ft = COMMON /\ o = "paper" THEN "mask" ELSE "paint"

PictureTriangle ==
    /\ pc = "pic_triangle"
    /\ k' = K(face_type, face, m)
    /\ trans' = k' % 2
    /\ context' = DrawTriangle(context, triangle_side, triangle_half_side,
                               triangle_height, k', face_type)
    /\ pc' = "pic_transform"
    /\ UNCHANGED <<paper, pics, count, i, pairs, j, image, face, ori, face_type, m,
                   current_point, triangle_index, paintLog, strokeLog, rots, pages>>

PictureTransform ==
    /\ pc = "pic_transform"
    /\ ori \in DOMAIN rotation[face_type]    \* otherwise line 134 raises KeyError
    /\ context' = TransformToTextureSpace(Save(context), triangle_side,
                      triangle_half_side, triangle_height, face_type, ori, trans,
                      image.width, image.height, m)
    /\ rots' = Append(rots, AppliedRotation(context'))
    /\ pc' = "pic_paint"
    /\ UNCHANGED <<paper, pics, count, i, pairs, j, image, face, ori, face_type, m, k,
                   trans, current_point, triangle_index, paintLog, strokeLog, pages>>

PicturePaint ==
    /\ pc = "pic_paint"
    /\ context' = SetSourceSurface(Clip(context), image)
    /\ paintLog' = Append(paintLog,
           [image |-> context'.source.id, face |-> face, ori |-> ori, m |-> m, k |-> k,
            op |-> PaintOp(face_type, ori),
            alpha |-> IF PaintOp(face_type, ori) = "mask" THEN alpha ELSE 100])
    /\ pc' = "pic_restore"
    /\ UNCHANGED <<paper, pics, count, i, pairs, j, image, face, ori, face_type, m, k,
                   trans, current_point, triangle_index, strokeLog, rots, pages>>

PictureRestore ==
    /\ pc = "pic_restore"
    /\ context' = ResetCursor(Restore(context), current_point)
    /\ IF m + 1 < CopiesPerFace
       THEN /\ m' = m + 1
            /\ pc' = "pic_triangle"
            /\ UNCHANGED <<j, image>>
       ELSE /\ m' = 0
            /\ j' = j + 1
            /\ image' = NoImage
            /\ pc' = "zip"
    /\ UNCHANGED <<paper, pics, count, i, pairs, face, ori, face_type, k, trans,
                   current_point, triangle_index, paintLog, strokeLog, rots, pages>>

(***************************************************************************)
(* draw_outline                                                            *)
(***************************************************************************)
\* the strip cut one triangle short: range(0, 18)
StripTrianglesShort ==
    19 - 1

\* range(0, 19): the triangles of the strip
StripTriangles ==
    19

OutlineTriangle ==
    /\ pc = "out_triangle"
    /\ context' = DrawTriangle(context, triangle_side, triangle_half_side,
                               triangle_height, triangle_index, face_type)
    /\ pc' = "out_stroke"
    /\ UNCHANGED <<paper, pics, count, i, pairs, j, image, face, ori, face_type, m, k,
                   trans, current_point, triangle_index, paintLog, strokeLog, rots, pages>>

OutlineStroke ==
    /\ pc = "out_stroke"
    /\ LET c == SetLineWidth(SetSourceRgbBlack(context), 1)
       IN  /\ strokeLog' = Append(strokeLog,
                  [index |-> triangle_index, face_type |-> face_type,
                   pts |-> ClosedPts(c.path), line_width |-> c.line_width,
                   source |-> c.source.kind])
           /\ context' = ResetCursor(Stroke(c), current_point)
    /\ IF face_type = COMMON
       THEN /\ face_type' = HIDDEN
            /\ pc' = "out_triangle"
            /\ UNCHANGED <<triangle_index, i>>
       ELSE IF triangle_index + 1 < StripTriangles
       THEN /\ face_type' = COMMON
            /\ triangle_index' = triangle_index + 1
            /\ pc' = "out_triangle"
            /\ UNCHANGED i
       ELSE /\ i' = i + 1
            /\ pc' = "rep"
            /\ UNCHANGED <<triangle_index, face_type>>
    /\ UNCHANGED <<paper, pics, count, pairs, j, image, face, ori, m, k, trans,
                   current_point, paintLog, rots, pages>>

(***************************************************************************)
(* main                                                                    *)
(***************************************************************************)
\* pairing that cycles through the first list instead of stopping
ZipCycling(s, t) ==
    [x \in 1..Len(t) |-> <<s[((x - 1) % Len(s)) + 1], t[x]>>]

\* list(zip(s, t))
Zip(s, t) ==
    [x \in 1..Min(Len(s), Len(t)) |-> <<s[x], t[x]>>]

common_faces ==
    Zip(<<0, 1, 2>>, <<"scissor", "scissor", "scissor">>)

hidden_faces ==
    Zip(<<3, 4, 5>>, <<"scissor", "scissor", "stone">>)

transparent_faces ==
    Zip(<<0, 1, 2>>, <<"paper", "paper", "paper">>)

ParseArgs ==
    /\ pc = "main"
    /\ IF paper \notin DOMAIN PAPER_SIZES
       THEN /\ pc' = "exit"
            /\ UNCHANGED count
       ELSE /\ count' = HorizontalTriangleCount(PAPER_SIZES[paper])
            /\ pc' = "rep"
    /\ UNCHANGED <<paper, pics, i, pairs, j, image, face, ori, face_type, m, k, trans,
                   current_point, triangle_index, context, paintLog, strokeLog, rots,
                   pages>>

BeginRepetition ==
    /\ pc = "rep"
    /\ i < count
    /\ context' = MoveTo(context, i * (2 * triangle_height), 0)
    /\ pairs' = Zip(pics, common_faces \o hidden_faces \o transparent_faces)
    /\ j' = 0
    /\ paintLog' = <<>>
    /\ strokeLog' = <<>>
    /\ pc' = "zip"
    /\ UNCHANGED <<paper, pics, count, i, image, face, ori, face_type, m, k, trans,
                   current_point, triangle_index, rots, pages>>

DrawPictureBegin ==
    /\ pc = "zip"
    /\ j < Len(pairs)
    /\ \E size \in ImageSizes :
           image' = [id |-> pairs[j + 1][1], width |-> size[1], height |-> size[2]]
    /\ face' = pairs[j + 1][2][1]
    /\ ori' = pairs[j + 1][2][2]
    /\ current_point' = GetCurrentPoint(context)
    /\ face_type' = FaceTypeOf(face')
    /\ m' = 0
    /\ rots' = <<>>
    /\ pc' = "pic_triangle"
    /\ UNCHANGED <<paper, pics, count, i, pairs, j, k, trans, triangle_index, context,
                   paintLog, strokeLog, pages>>

DrawOutlineBegin ==
    /\ pc = "zip"
    /\ j >= Len(pairs)
    /\ current_point' = GetCurrentPoint(context)
    /\ triangle_index' = 0
    /\ face_type' = COMMON
    /\ pc' = "out_triangle"
    /\ UNCHANGED <<paper, pics, count, i, pairs, j, image, face, ori, m, k, trans,
                   context, paintLog, strokeLog, rots, pages>>

\* show_page reached without waiting for the last repetition
ShowPageEarly ==
    /\ pc = "rep"
    /\ pages' = pages + 1
    /\ pc' = "done"
    /\ UNCHANGED <<paper, pics, count, i, pairs, j, image, face, ori, face_type, m, k,
                   trans, current_point, triangle_index, context, paintLog, strokeLog,
                   rots>>

ShowPage ==
    /\ pc = "rep"
    /\ i >= count
    /\ pages' = pages + 1
    /\ pc' = "done"
    /\ UNCHANGED <<paper, pics, count, i, pairs, j, image, face, ori, face_type, m, k,
                   trans, current_point, triangle_index, context, paintLog, strokeLog,
                   rots>>

Init ==
    /\ pc = "main"
    /\ paper \in PaperArgs
    /\ \E n \in 1..MaxPics : pics = [x \in 1..n |-> x]
    /\ count = 0
    /\ i = 0
    /\ pairs = <<>>
    /\ j = 0
    /\ image = NoImage
    /\ face = 0
    /\ ori = "scissor"
    /\ face_type = COMMON
    /\ m = 0
    /\ k = 0
    /\ trans = 0
    /\ current_point = NoPoint
    /\ triangle_index = 0
    /\ context = NewContext
    /\ paintLog = <<>>
    /\ strokeLog = <<>>
    /\ rots = <<>>
    /\ pages = 0

Next ==
    \/ ParseArgs
    \/ BeginRepetition
    \/ DrawPictureBegin
    \/ PictureTriangle
    \/ PictureTransform
    \/ PicturePaint
    \/ PictureRestore
    \/ DrawOutlineBegin
    \/ OutlineTriangle
    \/ OutlineStroke
    \/ ShowPage

Spec ==
    Init /\ [][Next]_vars

(***************************************************************************)
(* draw_picture on its own: any face with any orientation its face type    *)
(* has in the tables, from the anchor of any repetition                    *)
(***************************************************************************)
InitPicture ==
    /\ pc = "pic_triangle"
    /\ paper = "A4"
    /\ pics = <<1>>
    /\ count = HorizontalTriangleCount(PAPER_SIZES[paper])
    /\ i \in 0..(count - 1)
    /\ pairs = <<>>
    /\ j = 0
    /\ \E size \in ImageSizes : image = [id |-> 1, width |-> size[1], height |-> size[2]]
    /\ face \in 0..5
    /\ face_type = FaceTypeOf(face)
    /\ ori \in DOMAIN rotation[face_type]
    /\ m = 0
    /\ k = 0
    /\ trans = 0
    /\ context = MoveTo(NewContext, i * (2 * triangle_height), 0)
    /\ current_point = GetCurrentPoint(context)
    /\ triangle_index = 0
    /\ paintLog = <<>>
    /\ strokeLog = <<>>
    /\ rots = <<>>
    /\ pages = 0

NextPicture ==
    \/ PictureTriangle
    \/ PictureTransform
    \/ PicturePaint
    \/ PictureRestore

SpecPicture ==
    InitPicture /\ [][NextPicture]_vars

(***************************************************************************)
(* transform_to_texture_space on its own: one table entry (face_type, ori, *)
(* trans) held fixed, called for m = 0..5 between a save and a restore     *)
(***************************************************************************)
InitTransform ==
    /\ pc = "texture"
    /\ paper = "A4"
    /\ pics = <<1>>
    /\ count = 0
    /\ i = 0
    /\ pairs = <<>>
    /\ j = 0
    /\ \E size \in ImageSizes : image = [id |-> 1, width |-> size[1], height |-> size[2]]
    /\ face_type \in {COMMON, HIDDEN}
    /\ face = IF face_type = COMMON THEN 0 ELSE 3
    /\ ori \in DOMAIN rotation[face_type]
    /\ trans \in 0..1
    /\ m = 0
    /\ k = 0
    /\ \E a \in 0..1, b \in 0..1 : context = MoveTo(NewContext, a, b)
    /\ current_point = NoPoint
    /\ triangle_index = 0
    /\ paintLog = <<>>
    /\ strokeLog = <<>>
    /\ rots = <<>>
    /\ pages = 0

TextureSpaceCall ==
    /\ pc = "texture"
    /\ m < CopiesPerFace
    /\ LET c == TransformToTextureSpace(Save(context), triangle_side,
                    triangle_half_side, triangle_height, face_type, ori, trans,
                    image.width, image.height, m)
       IN  /\ rots' = Append(rots, AppliedRotation(c))
           /\ context' = Restore(c)
    /\ m' = m + 1
    /\ UNCHANGED <<pc, paper, pics, count, i, pairs, j, image, face, ori, face_type, k,
                   trans, current_point, triangle_index, paintLog, strokeLog, pages>>

NextTransform ==
    TextureSpaceCall

SpecTransform ==
    InitTransform /\ [][NextTransform]_vars

(***************************************************************************)
(* Properties                                                              *)
(***************************************************************************)
Range(s) ==
    {s[n] : n \in 1..Len(s)}

\* a repetition has just been drawn: the logs hold all its operations
RepetitionDrawn ==
    pc = "rep" /\ i > 0

\* one stroke per (index, visibility) pair, 38 in all
StrokesComplete ==
    /\ Len(strokeLog) = 38
    /\ {<<e.index, e.face_type>> : e \in Range(strokeLog)} = (0..18) \X {COMMON, HIDDEN}

\* C1 as claimed: every repetition issues exactly 38 strokes and at most 18
\* paint/mask operations, fewer than 18 when fewer than 18 images are given.
C1_AtMost18Paints ==
    RepetitionDrawn =>
        /\ StrokesComplete
        /\ Len(paintLog) <= 18
        /\ (Len(pics) < 18 => Len(paintLog) < 18)

\* C1 amended: every repetition issues exactly 38 strokes, one per (index,
\* visibility) pair, and exactly 6 * min(n, 9) paint/mask operations (six
\* per painted slot, at most 54).
C1_StrokesAndPaints ==
    RepetitionDrawn =>
        /\ StrokesComplete
        /\ Len(paintLog) = 6 * Min(Len(pics), 9)
        /\ Len(paintLog) <= 54

C1_Witness ==
    /\ RepetitionDrawn
    /\ Len(pics) = 4
    /\ Len(paintLog) = 24
    /\ Len(strokeLog) = 38

EdgeVectors(pts) ==
    [n \in 1..(Len(pts) - 1) |->
        <<pts[n + 1][1] - pts[n][1], pts[n + 1][2] - pts[n][2]>>]

\* the outline stroked for index + 2 is the one for index moved by (0, dy)
OutlinesShiftedBy(dy) ==
    \A e1 \in Range(strokeLog), e2 \in Range(strokeLog) :
        (e2.index = e1.index + 2 /\ e2.face_type = e1.face_type) =>
            /\ Len(e1.pts) = 4
            /\ EdgeVectors(e2.pts) = EdgeVectors(e1.pts)
            /\ e2.pts[1] = <<e1.pts[1][1], e1.pts[1][2] + dy>>

\* C2 as claimed: the outline of index i+2 is the outline of index i
\* translated by (0, 2*side), for i in 0..16 and both visibilities.
C2_ShiftTwoSides ==
    OutlinesShiftedBy(2 * triangle_side)

\* C2 amended: the outline of index i+2 is the outline of index i translated
\* by (0, side): same three edge vectors, start point shifted by (0, side).
C2_ShiftOneSide ==
    OutlinesShiftedBy(triangle_side)

C2_Witness ==
    /\ \E e1 \in Range(strokeLog), e2 \in Range(strokeLog) :
           e1.index = 0 /\ e2.index = 2 /\ e1.face_type = HIDDEN /\ e2.face_type = HIDDEN
    /\ \E e1 \in Range(strokeLog), e2 \in Range(strokeLog) :
           e1.index = 16 /\ e2.index = 18 /\ e1.face_type = COMMON /\ e2.face_type = COMMON

\* the fixed slot sequence of the claim
SlotSequence ==
    << <<0, "scissor">>, <<1, "scissor">>, <<2, "scissor">>,
       <<3, "scissor">>, <<4, "scissor">>, <<5, "stone">>,
       <<0, "paper">>, <<1, "paper">>, <<2, "paper">> >>

\* all draw_picture calls of the repetition have returned
PicturesDone ==
    pc \in {"out_triangle", "out_stroke"} \/ RepetitionDrawn

PaintedSlots ==
    {<<e.image, e.face, e.ori>> : e \in Range(paintLog)}

\* image x goes to slot x of the sequence, and to no other
PairedPositionally ==
    \A s \in PaintedSlots :
        /\ s[1] \in 1..Len(SlotSequence)
        /\ <<s[2], s[3]>> = SlotSequence[s[1]]

\* C3 as claimed: a repetition paints exactly min(n, 18) slots, image j on
\* slot j of the fixed sequence, no image on two slots.
C3_Min18Slots ==
    PicturesDone =>
        /\ Cardinality(PaintedSlots) = Min(Len(pics), 18)
        /\ PairedPositionally

\* C3 amended: a repetition paints exactly min(n, 9) slots (the fixed
\* sequence has 9 slots), image j on slot j, slots beyond the image count
\* unpainted, images beyond the ninth unused, no image on two slots.
C3_Min9Slots ==
    PicturesDone =>
        /\ Cardinality(PaintedSlots) = Min(Len(pics), 9)
        /\ PairedPositionally
        /\ PaintedSlots = {<<x, SlotSequence[x][1], SlotSequence[x][2]>> :
                              x \in 1..Min(Len(pics), 9)}

C3_Witness ==
    /\ RepetitionDrawn
    /\ Len(pics) = 7
    /\ Cardinality(PaintedSlots) = 7
    /\ <<7, 0, "paper">> \in PaintedSlots

C3_WitnessMany ==
    /\ RepetitionDrawn
    /\ Len(pics) = 10
    /\ Cardinality(PaintedSlots) = 9

OrderedStep ==
    /\ Len(paintLog') > Len(paintLog) => (strokeLog = <<>> /\ strokeLog' = <<>>)
    /\ Len(strokeLog') > Len(strokeLog) => pages = 0
    /\ pages' # pages =>
           /\ pages = 0
           /\ pages' = 1
           /\ i = count
           /\ count > 0 => StrokesComplete
    /\ pc' = "done" => pages' = 1
    /\ pc = "done" => UNCHANGED vars

\* C4: in every repetition no paint/mask follows a stroke of that repetition,
\* and show_page is called exactly once, after the strokes of the last
\* repetition.
C4_PaintBeforeStroke ==
    [][OrderedStep]_vars

C4_Witness ==
    /\ pc = "done"
    /\ pages = 1
    /\ Len(paintLog) = 54
    /\ Len(strokeLog) = 38

\* the anchor of repetition i
Anchor ==
    <<i * (2 * triangle_height), 0>>

\* C5: when a draw_triangle call begins, the save depth is 0, the transform
\* is the base transform, no clip is active and the current point is the
\* anchor of the repetition; a save is never nested in another.
C5_NoLeak ==
    /\ Len(context.saved) <= 1
    /\ pc \in {"pic_triangle", "out_triangle"} =>
           /\ Len(context.saved) = 0
           /\ context.ctm = BaseCTM
           /\ context.clip = NoClip
           /\ context.point = Anchor

C5_Witness ==
    /\ pc = "pic_triangle"
    /\ i = 2
    /\ j = 4
    /\ m = 3
    /\ Len(paintLog) = 27

C5_WitnessOutline ==
    /\ pc = "out_triangle"
    /\ i = 1
    /\ triangle_index = 7
    /\ face_type = HIDDEN

\* C6: a copy is painted through the 0.4 mask iff the face is common
\* (face < 3) and the orientation is "paper", with full opacity otherwise,
\* and every copy gets exactly one of the two operations.
C6_MaskIffCommonPaper ==
    /\ \A e \in Range(paintLog) :
           /\ e.op \in {"mask", "paint"}
           /\ e.op = "mask" <=> (e.face < 3 /\ e.ori = "paper")
           /\ e.alpha = IF e.face < 3 /\ e.ori = "paper" THEN 40 ELSE 100
    /\ \A n \in 1..Len(paintLog) : paintLog[n].m = n - 1
    /\ Len(paintLog) = IF pc = "zip" THEN 6
                       ELSE IF pc = "pic_restore" THEN m + 1 ELSE m

C6_Witness ==
    /\ pc = "zip"
    /\ face = 1
    /\ ori = "paper"
    /\ Len(paintLog) = 6
    /\ paintLog[6].op = "mask"

C6_WitnessPaint ==
    /\ pc = "zip"
    /\ face = 4
    /\ ori = "stone"
    /\ Len(paintLog) = 6
    /\ paintLog[6].op = "paint"

\* C7: for a fixed table entry the angle is a multiple of 30 degrees for
\* every copy index 0..5, and the angle at copy index c+1 is the angle at c
\* plus exactly 60 degrees.
C7_SixtyPerCopy ==
    /\ \A c \in 1..Len(rots) : rots[c] % 30 = 0
    /\ \A c \in 1..(Len(rots) - 1) : rots[c + 1] - rots[c] = 60

C7_Witness ==
    /\ pc = "texture"
    /\ Len(rots) = 6
    /\ face_type = HIDDEN
    /\ ori = "scissor"
    /\ trans = 1

AnglesApplied ==
    {rots[c] % 360 : c \in 1..Len(rots)}

\* C8 as claimed: within one draw_picture call the angle applied to copy c+1
\* is the angle applied to copy c advanced by 60 degrees modulo 360, so the
\* six copies get six pairwise distinct angles.
C8_SixtyBetweenCopies ==
    /\ \A c \in 1..(Len(rots) - 1) : (rots[c + 1] - rots[c]) % 360 = 60
    /\ Cardinality(AnglesApplied) = Len(rots)

\* C8 amended: within one draw_picture call the angle applied to copy c+2 is
\* the angle applied to copy c advanced by 120 degrees modulo 360 (c in
\* 0..3); two consecutive copies differ by a multiple of 120 degrees, and
\* the six copies get three distinct angles, each on two copies.
C8_OneTwentyEverySecondCopy ==
    /\ \A c \in 1..(Len(rots) - 2) : (rots[c + 2] - rots[c]) % 360 = 120
    /\ \A c \in 1..(Len(rots) - 1) : (rots[c + 1] - rots[c]) % 120 = 0
    /\ Len(rots) = 6 =>
           /\ Cardinality(AnglesApplied) = 3
           /\ \A a \in AnglesApplied :
                  Cardinality({c \in 1..6 : rots[c] % 360 = a}) = 2

C8_Witness ==
    /\ pc = "pic_paint"
    /\ Len(rots) = 6
    /\ face = 0
    /\ ori = "scissor"
    /\ rots = <<180, -60, 300, 60, 420, 180>>

\* the entries of one pass over three faces of the same type
PassOf(common, transparent) ==
    {e \in Range(paintLog) : (e.face < 3) = common /\ (e.ori = "paper") = transparent}

\* (face, copy) -> k is one-to-one on the pass, into rng, and onto rng once
\* the three faces are done
OneToOneOnto(pass, rng) ==
    /\ \A e \in pass : e.k \in rng
    /\ \A e1 \in pass, e2 \in pass :
           (e1.face # e2.face \/ e1.m # e2.m) => e1.k # e2.k
    /\ Cardinality({<<e.face, e.m>> : e \in pass}) = 18 => {e.k : e \in pass} = rng

\* C9: (face, copy) -> k is a bijection onto 1..18 for the common faces and
\* onto 0..17 for the hidden faces; k always lies in 0..18.
C9_KPartitionsStrip ==
    /\ \A e \in Range(paintLog) : e.k \in 0..18 /\ e.k = K(FaceTypeOf(e.face), e.face, e.m)
    /\ OneToOneOnto(PassOf(TRUE, FALSE), 1..18)
    /\ OneToOneOnto(PassOf(TRUE, TRUE), 1..18)
    /\ OneToOneOnto(PassOf(FALSE, FALSE), 0..17)

C9_Witness ==
    /\ RepetitionDrawn
    /\ Len(pics) = 9
    /\ {e.k : e \in PassOf(TRUE, FALSE)} = 1..18
    /\ {e.k : e \in PassOf(FALSE, FALSE)} = 0..17
    /\ {e.k : e \in PassOf(TRUE, TRUE)} = 1..18

\* where the image centre goes: the first translate of the transform
ImageCentre ==
    <<context.ctm[1].a, context.ctm[1].b>>

\* the vertices of the clip triangle
ClipVertices ==
    Range(ClosedPts(context.clip[1]))

\* C10: the image centre is mapped onto one of the three vertices of the
\* triangle k used as clip region, so every point of the triangle is within
\* triangle_side of it.
C10_CentreOnVertex ==
    pc = "pic_restore" =>
        /\ Len(context.clip) = 1
        /\ ClipVertices = Range(ClosedPts(
               DrawTriangle(MoveTo(NewContext, Anchor[1], Anchor[2]), triangle_side,
                   triangle_half_side, triangle_height, K(face_type, face, m),
                   face_type).path))
        /\ Cardinality(ClipVertices) = 3
        /\ context.ctm[1].kind = "translate"
        /\ ImageCentre \in ClipVertices
        /\ \A v \in ClipVertices :
               3 * (v[1] - ImageCentre[1]) * (v[1] - ImageCentre[1])
                 + (v[2] - ImageCentre[2]) * (v[2] - ImageCentre[2])
                 <= triangle_side * triangle_side

C10_Witness ==
    /\ pc = "pic_restore"
    /\ face = 5
    /\ ori = "stone"
    /\ m = 5
    /\ ImageCentre \in ClipVertices

====
